---- MODULE Spec2Model ----
(***************************************************************************)
(* Model of swiss_locator/swiss_locator_filter.py (SwissLocatorFilter).    *)
(*                                                                         *)
(* Text is modelled as a sequence of one-character strings, so that the    *)
(* regular expressions of the filter are evaluated character by character. *)
(* Floating point values are modelled exactly, as decimal fractions        *)
(* [num, exp] (num / 10^exp) or as ratios [num, den].                      *)
(***************************************************************************)
EXTENDS Integers, Sequences, FiniteSets, TLC

VARIABLES
    reply,      \* self.reply
    debug,      \* DEBUG, imported from swiss_locator_plugin
    calls,      \* one record per fetchResults call of the filter instance
    box,        \* the text handed to box2geometry
    boxToks,    \* the number tokens the text was assembled from
    boxRes,     \* what box2geometry returned or raised
    settings,   \* self.settings: the three beautifier toggles
    group,      \* the text handed to beautify_group
    groupRes,   \* what beautify_group returned
    steps       \* the steps beautify_group applied, in order

vars == <<reply, debug, calls, box, boxToks, boxRes, settings, group, groupRes, steps>>

----------------------------------------------------------------------------
(* Bounds of the model *)

MaxTokens == 5
MaxGroupLen == 3
MaxCalls == 2
MaxResults == 3
MaxSearchLen == 2

----------------------------------------------------------------------------
(* Characters *)

Digits == {"0", "1", "2", "3", "4", "5", "6", "7", "8", "9"}

Lower == {"a", "b", "c", "d", "e", "f", "g", "h", "i", "j", "k", "l", "m",
          "n", "o", "p", "q", "r", "s", "t", "u", "v", "w", "x", "y", "z"}

Upper == {"A", "B", "C", "D", "E", "F", "G", "H", "I", "J", "K", "L", "M",
          "N", "O", "P", "Q", "R", "S", "T", "U", "V", "W", "X", "Y", "Z"}

\* \w of the re module, over the characters of the model
WordChars == Digits \cup Lower \cup Upper \cup {"_"}

DigitVal(c) ==
    CASE c = "0" -> 0 [] c = "1" -> 1 [] c = "2" -> 2 [] c = "3" -> 3
      [] c = "4" -> 4 [] c = "5" -> 5 [] c = "6" -> 6 [] c = "7" -> 7
      [] c = "8" -> 8 [] c = "9" -> 9

SetMax(S) == CHOOSE x \in S : \A y \in S : y <= x

SetMin(S) == CHOOSE x \in S : \A y \in S : x <= y

RECURSIVE Join(_, _)
Join(ss, sep) ==
    IF ss = <<>> THEN <<>>
    ELSE IF Len(ss) = 1 THEN ss[1]
    ELSE ss[1] \o sep \o Join(Tail(ss), sep)

\* all sequences over S of length 0..n
SeqsUpTo(S, n) == UNION {[1..k -> S] : k \in 0..n}

----------------------------------------------------------------------------
(* box2geometry: re.findall(r'\b(\d+(?:\.\d+)?)\b', box), then four floats *)

RequiredCoords == 4

\* \b between s[p] and s[p+1] (p = 0: start of text, p = Len(s): end of text)
IsBoundary(s, p) ==
    LET before == p >= 1 /\ s[p] \in WordChars
        after == p + 1 <= Len(s) /\ s[p + 1] \in WordChars
    IN before # after

\* the end of the run of digits that starts at s[i]
RunEnd(s, i) == SetMax({j \in i..Len(s) : \A k \in i..j : s[k] \in Digits})

\* the end of the match of \b(\d+(?:\.\d+)?)\b that starts at s[i], 0 if there
\* is none: \d+ is greedy and backs off, the optional group is tried first
MatchEnd(s, i) ==
    IF ~(IsBoundary(s, i - 1) /\ s[i] \in Digits) THEN 0
    ELSE LET WithFrac(e1) ==
                 IF e1 + 2 <= Len(s) /\ s[e1 + 1] = "." /\ s[e1 + 2] \in Digits
                 THEN {e2 \in (e1 + 2)..RunEnd(s, e1 + 2) : IsBoundary(s, e2)}
                 ELSE {}
             Try(e1) == IF WithFrac(e1) # {} THEN SetMax(WithFrac(e1))
                        ELSE IF IsBoundary(s, e1) THEN e1 ELSE 0
             ok == {e1 \in i..RunEnd(s, i) : Try(e1) # 0}
         IN IF ok = {} THEN 0 ELSE Try(SetMax(ok))

\* findall: the matches from s[i] on, e the end of the match at s[i]
RECURSIVE FindallFrom(_, _)
FindallNext(s, i, e) ==
    IF e = 0 THEN FindallFrom(s, i + 1)
    ELSE <<SubSeq(s, i, e)>> \o FindallFrom(s, e + 1)

FindallFrom(s, i) == IF i > Len(s) THEN <<>> ELSE FindallNext(s, i, MatchEnd(s, i))

Findall(s) == FindallFrom(s, 1)

RECURSIVE DigitsToNat(_)
DigitsToNat(ds) ==
    IF ds = <<>> THEN 0
    ELSE 10 * DigitsToNat(SubSeq(ds, 1, Len(ds) - 1)) + DigitVal(ds[Len(ds)])

RECURSIVE Normalize(_)
Normalize(v) ==
    IF v.exp > 0 /\ v.num % 10 = 0
    THEN Normalize([num |-> v.num \div 10, exp |-> v.exp - 1])
    ELSE v

\* float(tok) for a token digits or digits.digits: the value num / 10^exp
ParseFloat(tok) ==
    LET dots == {k \in 1..Len(tok) : tok[k] = "."}
    IN IF dots = {} THEN [num |-> DigitsToNat(tok), exp |-> 0]
       ELSE LET d == SetMin(dots)
                all == SubSeq(tok, 1, d - 1) \o SubSeq(tok, d + 1, Len(tok))
            IN Normalize([num |-> DigitsToNat(all), exp |-> Len(tok) - d])

QgsRectangle(x1, y1, x2, y2) ==
    [xMinimum |-> x1, yMinimum |-> y1, xMaximum |-> x2, yMaximum |-> y2]

NoRect == [xMinimum |-> [num |-> 0, exp |-> 0], yMinimum |-> [num |-> 0, exp |-> 0],
           xMaximum |-> [num |-> 0, exp |-> 0], yMaximum |-> [num |-> 0, exp |-> 0]]

\* QgsRectangle(float(coords[0]), float(coords[1]), float(coords[2]), float(coords[3]))
RectOf(coords) ==
    QgsRectangle(ParseFloat(coords[1]), ParseFloat(coords[2]),
                 ParseFloat(coords[3]), ParseFloat(coords[4]))

\* the four coordinates, 0 in the place of a missing one
PadCoords(coords) == [k \in 1..4 |-> IF k <= Len(coords) THEN coords[k] ELSE <<"0">>]

\* a faulty variant: the text is never refused
CoordsToRectLenient(coords) == [exc |-> "none", rect |-> RectOf(PadCoords(coords))]

\* a faulty variant: fewer than four coordinates are still refused, more are accepted
CoordsToRectAtLeast(coords) ==
    IF Len(coords) < RequiredCoords
    THEN [exc |-> "InvalidBox", rect |-> NoRect]
    ELSE [exc |-> "none", rect |-> RectOf(coords)]

\* if len(coords) != 4: raise InvalidBox; else the rectangle
CoordsToRect(coords) ==
    IF Len(coords) # RequiredCoords
    THEN [exc |-> "InvalidBox", rect |-> NoRect]
    ELSE [exc |-> "none", rect |-> RectOf(coords)]

Box2Geometry(b) == CoordsToRect(Findall(b))

----------------------------------------------------------------------------
(* beautify_group and break_camelcase *)

\* re.sub('^\d+', '', group)
RemoveLeadingDigits(g) ==
    LET n == SetMax({k \in 0..Len(g) : \A j \in 1..k : g[j] \in Digits})
    IN SubSeq(g, n + 1, Len(g))

\* group.replace("_", " ")
ReplaceUnderscore(g) == [k \in 1..Len(g) |-> IF g[k] = "_" THEN " " ELSE g[k]]

\* the position after s[p] satisfies
\* (?<=[a-z])(?=[A-Z]) | (?<=[A-Z])(?=[A-Z][a-z]) | $
IsBreak(s, p) ==
    \/ p + 1 <= Len(s) /\ s[p] \in Lower /\ s[p + 1] \in Upper
    \/ p + 2 <= Len(s) /\ s[p] \in Upper /\ s[p + 1] \in Upper /\ s[p + 2] \in Lower
    \/ p = Len(s)

\* re.finditer of the lazy .+? up to the first break: the pieces, left to right
RECURSIVE CamelPieces(_, _)
CamelPieces(s, i) ==
    IF i > Len(s) THEN <<>>
    ELSE LET p == SetMin({q \in i..Len(s) : IsBreak(s, q)})
         IN <<SubSeq(s, i, p)>> \o CamelPieces(s, p + 1)

BreakCamelcase(identifier) == Join(CamelPieces(identifier, 1), <<" ">>)

\* a faulty variant: the underscore toggle is ignored, underscores are always replaced
BeautifyGroupAlways(g, st) ==
    LET g1 == IF st.remove_leading_digits THEN RemoveLeadingDigits(g) ELSE g
        g2 == ReplaceUnderscore(g1)
        g3 == IF st.break_camelcase THEN BreakCamelcase(g2) ELSE g2
    IN [text |-> g3,
        steps |-> (IF st.remove_leading_digits THEN <<"remove_leading_digits">> ELSE <<>>)
                  \o <<"replace_underscore">>
                  \o (IF st.break_camelcase THEN <<"break_camelcase">> ELSE <<>>)]

BeautifyGroup(g, st) ==
    LET g1 == IF st.remove_leading_digits THEN RemoveLeadingDigits(g) ELSE g
        g2 == IF st.replace_underscore THEN ReplaceUnderscore(g1) ELSE g1
        g3 == IF st.break_camelcase THEN BreakCamelcase(g2) ELSE g2
    IN [text |-> g3,
        steps |-> (IF st.remove_leading_digits THEN <<"remove_leading_digits">> ELSE <<>>)
                  \o (IF st.replace_underscore THEN <<"replace_underscore">> ELSE <<>>)
                  \o (IF st.break_camelcase THEN <<"break_camelcase">> ELSE <<>>)]

----------------------------------------------------------------------------
(* translate_group, rank2priority and handle_response *)

\* self.tr(text) with no translation loaded is the text itself
Tr(text) == text

\* a faulty variant: a key outside the table is passed through as its own category
TranslateGroupPassThrough(g) ==
    CASE g = "zipcode" -> [exc |-> "none", text |-> Tr("ZIP code")]
      [] g = "gg25" -> [exc |-> "none", text |-> Tr("Municipal boundaries")]
      [] g = "district" -> [exc |-> "none", text |-> Tr("District")]
      [] g = "kantone" -> [exc |-> "none", text |-> Tr("Cantons")]
      [] g = "gazetteer" -> [exc |-> "none", text |-> Tr("Index")]
      [] g = "address" -> [exc |-> "none", text |-> Tr("Address")]
      [] g = "parcel" -> [exc |-> "none", text |-> Tr("Parcel")]
      [] OTHER -> [exc |-> "none", text |-> g]

TranslateGroup(g) ==
    CASE g = "zipcode" -> [exc |-> "none", text |-> Tr("ZIP code")]
      [] g = "gg25" -> [exc |-> "none", text |-> Tr("Municipal boundaries")]
      [] g = "district" -> [exc |-> "none", text |-> Tr("District")]
      [] g = "kantone" -> [exc |-> "none", text |-> Tr("Cantons")]
      [] g = "gazetteer" -> [exc |-> "none", text |-> Tr("Index")]
      [] g = "address" -> [exc |-> "none", text |-> Tr("Address")]
      [] g = "parcel" -> [exc |-> "none", text |-> Tr("Parcel")]
      [] OTHER -> [exc |-> "NameError", text |-> ""]

RankDivisor == 7

\* float(-rank / 7 + 1), as the ratio (7 - rank) / 7
Rank2Priority(rank) == [num |-> RankDivisor - rank, den |-> RankDivisor]

\* the score of a QgsLocatorResult that nothing was assigned to: 0.5
DefaultScore == [num |-> 1, den |-> 2]

NoResult == [displayString |-> "", group |-> "", userData |-> NoRect, score |-> DefaultScore]

\* dbg_info(msg): the message is logged when DEBUG is set
DbgInfo(dbg, msg) == IF dbg THEN <<msg>> ELSE <<>>

\* one pass of the loop body of handle_response for the entry loc, grp and geo
\* being what translate_group and box2geometry give for it: the exception
\* raised, the messages logged before that, and the result emitted. The
\* arguments of a dbg_info call are evaluated whatever DEBUG is.
HandleEntryWith(loc, dbg, grp, geo) ==
    IF ~loc.hasDetail
    THEN [exc |-> "KeyError", emits |-> FALSE, result |-> NoResult,
          log |-> DbgInfo(dbg, "keys") \o DbgInfo(dbg, "label")]
    ELSE IF grp.exc # "none"
    THEN [exc |-> grp.exc, emits |-> FALSE, result |-> NoResult,
          log |-> DbgInfo(dbg, "keys") \o DbgInfo(dbg, "label") \o DbgInfo(dbg, "detail")
                  \o DbgInfo(dbg, "priority")]
    ELSE [exc |-> geo.exc, emits |-> geo.exc = "none",
          result |-> IF geo.exc # "none" THEN NoResult
                     ELSE [displayString |-> loc.label, group |-> grp.text,
                           userData |-> geo.rect, score |-> DefaultScore],
          log |-> DbgInfo(dbg, "keys") \o DbgInfo(dbg, "label") \o DbgInfo(dbg, "detail")
                  \o DbgInfo(dbg, "priority") \o DbgInfo(dbg, "category")
                  \o DbgInfo(dbg, "bbox")]

HandleEntry(loc, dbg) ==
    HandleEntryWith(loc, dbg, TranslateGroup(loc.origin), Box2Geometry(loc.geom_st_box2d))

\* for loc in data['results']: the loop ends at the first entry that raises;
\* one is the outcome of the first entry
RECURSIVE HandleResults(_, _)
HandleResultsAfter(one, results, dbg) ==
    IF one.exc # "none"
    THEN [exc |-> one.exc, log |-> one.log, emitted |-> <<>>, parsed |-> TRUE]
    ELSE [HandleResults(Tail(results), dbg) EXCEPT !.log = one.log \o @,
                                                   !.emitted = <<one.result>> \o @]

HandleResults(results, dbg) ==
    IF results = <<>>
    THEN [exc |-> "none", log |-> <<>>, emitted |-> <<>>, parsed |-> TRUE]
    ELSE HandleResultsAfter(HandleEntry(Head(results), dbg), results, dbg)

HttpOk == 200

\* a faulty variant: only the client and server error codes are refused
IsErrorStatusFrom400(status_code) == status_code >= 400

\* response.status_code != 200
IsErrorStatus(status_code) == status_code # HttpOk

HandleResponse(response, dbg) ==
    IF IsErrorStatus(response.status_code)
    THEN [exc |-> "none", log |-> <<"status_error">>, emitted |-> <<>>, parsed |-> FALSE]
    ELSE IF response.content.kind # "json"
    THEN [exc |-> "ValueError", log |-> <<>>, emitted |-> <<>>, parsed |-> TRUE]
    ELSE IF ~response.content.hasResults
    THEN [exc |-> "KeyError", log |-> <<>>, emitted |-> <<>>, parsed |-> TRUE]
    ELSE HandleResults(response.content.results, dbg)

----------------------------------------------------------------------------
(* fetchResults *)

MinSearchLen == 2

\* a faulty variant: only the empty search text is refused
TooShortEmpty(search) == Len(search) < 1

\* len(search) < 2
TooShort(search) == Len(search) < MinSearchLen

\* a faulty variant: the abort of the request is reported like any transport error
OnExceptionAbortLogged(exc) ==
    CASE exc = "none" -> [log |-> <<>>, pc |-> "returned", exc |-> "none"]
      [] exc = "RequestsExceptionUserAbort" ->
             [log |-> <<"request_error">>, pc |-> "returned", exc |-> "none"]
      [] exc = "RequestsException" ->
             [log |-> <<"request_error">>, pc |-> "returned", exc |-> "none"]
      [] OTHER -> [log |-> <<>>, pc |-> "raised", exc |-> exc]

\* the except clauses of fetchResults: what is logged and how the call ends
\* when the try block ends with exc
OnException(exc) ==
    CASE exc = "none" -> [log |-> <<>>, pc |-> "returned", exc |-> "none"]
      [] exc = "RequestsExceptionUserAbort" ->
             [log |-> <<>>, pc |-> "returned", exc |-> "none"]
      [] exc = "RequestsException" ->
             [log |-> <<"request_error">>, pc |-> "returned", exc |-> "none"]
      [] OTHER -> [log |-> <<>>, pc |-> "raised", exc |-> exc]

NoResponse == [status_code |-> 0,
               content |-> [kind |-> "none", hasResults |-> FALSE, results |-> <<>>]]

IdleCall == [pc |-> "idle", search |-> <<>>, canceled |-> FALSE, aborted |-> FALSE,
             ended |-> "none", response |-> NoResponse, parsed |-> FALSE,
             emitted |-> <<>>, log |-> <<>>, exc |-> "none"]

\* the calls whose request is issued and has neither ended nor been aborted
Outstanding == {c \in DOMAIN calls : calls[c].pc = "request" /\ ~calls[c].aborted}

\* fetchResults up to the blocking nam.request: the length check, the abort of
\* the request self.reply holds, the request of the call
FetchResults(c, search) ==
    /\ calls[c].pc = "idle"
    /\ \A d \in DOMAIN calls : d < c => calls[d].pc # "idle"
    /\ IF TooShort(search)
       THEN calls' = [calls EXCEPT ![c].pc = "returned", ![c].search = search,
                                   ![c].log = DbgInfo(debug, "start")]
       ELSE calls' = [d \in DOMAIN calls |->
                        IF d = c
                        THEN [calls[c] EXCEPT !.pc = "request", !.search = search,
                                 !.log = DbgInfo(debug, "start") \o DbgInfo(debug, "url")]
                        ELSE IF reply # "None" /\ reply = d /\ calls[d].pc = "request"
                        THEN [calls[d] EXCEPT !.aborted = TRUE]
                        ELSE calls[d]]
    /\ UNCHANGED <<reply, debug, box, boxToks, boxRes, settings, group, groupRes, steps>>

\* feedback.canceled fires while the request is in flight: nam.abort
Cancel(c) ==
    /\ calls[c].pc = "request"
    /\ ~calls[c].aborted
    /\ calls' = [calls EXCEPT ![c].canceled = TRUE, ![c].aborted = TRUE]
    /\ UNCHANGED <<reply, debug, box, boxToks, boxRes, settings, group, groupRes, steps>>

\* the try block ends with exc before handle_response is reached
RequestRaises(c, exc) ==
    \E x \in {OnException(exc)} :
        calls' = [calls EXCEPT ![c].pc = x.pc,
                               ![c].ended = exc,
                               ![c].exc = x.exc,
                               ![c].log = @ \o x.log]

\* nam.request raises RequestsExceptionUserAbort for an aborted request
RequestAborted(c) ==
    /\ calls[c].pc = "request"
    /\ calls[c].aborted
    /\ RequestRaises(c, "RequestsExceptionUserAbort")
    /\ UNCHANGED <<reply, debug, box, boxToks, boxRes, settings, group, groupRes, steps>>

\* nam.request raises RequestsException for any other transport error
RequestFailed(c) ==
    /\ calls[c].pc = "request"
    /\ ~calls[c].aborted
    /\ RequestRaises(c, "RequestsException")
    /\ UNCHANGED <<reply, debug, box, boxToks, boxRes, settings, group, groupRes, steps>>

\* nam.request returns (response, content): handle_response, and the except
\* clauses for what it raises
RequestReturns(c, response) ==
    /\ calls[c].pc = "request"
    /\ ~calls[c].aborted
    /\ \E h \in {HandleResponse(response, debug)} : \E x \in {OnException(h.exc)} :
          calls' = [calls EXCEPT ![c].pc = x.pc,
                                 ![c].ended = "response",
                                 ![c].response = response,
                                 ![c].parsed = h.parsed,
                                 ![c].emitted = h.emitted,
                                 ![c].exc = x.exc,
                                 ![c].log = @ \o h.log \o x.log]
    /\ UNCHANGED <<reply, debug, box, boxToks, boxRes, settings, group, groupRes, steps>>

----------------------------------------------------------------------------
(* Inputs of the pure functions *)

\* number tokens of a box text: the text and the value it stands for
NumberTokens ==
    {[text |-> <<"7">>, value |-> [num |-> 7, exp |-> 0]],
     [text |-> <<"2", "0">>, value |-> [num |-> 20, exp |-> 0]],
     [text |-> <<"3", ".", "5">>, value |-> [num |-> 35, exp |-> 1]]}

BoxSeparators == {<<" ">>, <<",">>}

BoxWrappers ==
    {[open |-> <<>>, close |-> <<>>],
     [open |-> <<"B", "O", "X", "(">>, close |-> <<")">>],
     [open |-> <<"-">>, close |-> <<>>]}

\* the text of the tokens toks, separated by sep, inside the wrapper w
BoxText(w, toks, sep) ==
    w.open \o Join([k \in 1..Len(toks) |-> toks[k].text], sep) \o w.close

GroupChars == {"1", "_", "a", "B"}

ExampleGroup ==
    <<"1", "2", "_", "C", "a", "m", "e", "l", "C", "a", "s", "e", "W", "o", "r", "d">>

Toggles == [remove_leading_digits : BOOLEAN, replace_underscore : BOOLEAN,
            break_camelcase : BOOLEAN]

NoToggles == [remove_leading_digits |-> FALSE, replace_underscore |-> FALSE,
              break_camelcase |-> FALSE]

NoBoxRes == [done |-> FALSE, exc |-> "none", rect |-> NoRect]

NoGroupRes == [done |-> FALSE, text |-> <<>>]

----------------------------------------------------------------------------
(* box2geometry applied to a box text *)

InitBox ==
    /\ reply = "None"
    /\ debug = FALSE
    /\ calls = <<>>
    /\ \E w \in BoxWrappers, toks \in SeqsUpTo(NumberTokens, MaxTokens),
          sep \in BoxSeparators :
           /\ box = BoxText(w, toks, sep)
           /\ boxToks = toks
    /\ boxRes = NoBoxRes
    /\ settings = NoToggles
    /\ group = <<>>
    /\ groupRes = NoGroupRes
    /\ steps = <<>>

CallBox2Geometry ==
    /\ ~boxRes.done
    /\ \E r \in {Box2Geometry(box)} :
           boxRes' = [done |-> TRUE, exc |-> r.exc, rect |-> r.rect]
    /\ UNCHANGED <<reply, debug, calls, box, boxToks, settings, group, groupRes, steps>>

NextBox == CallBox2Geometry

SpecBox == InitBox /\ [][NextBox]_vars

----------------------------------------------------------------------------
(* beautify_group applied to a group text under the three toggles *)

InitBeautify ==
    /\ reply = "None"
    /\ debug = FALSE
    /\ calls = <<>>
    /\ box = <<>>
    /\ boxToks = <<>>
    /\ boxRes = NoBoxRes
    /\ settings \in Toggles
    /\ group \in SeqsUpTo(GroupChars, MaxGroupLen) \cup {ExampleGroup}
    /\ groupRes = NoGroupRes
    /\ steps = <<>>

CallBeautifyGroup ==
    /\ ~groupRes.done
    /\ \E r \in {BeautifyGroup(group, settings)} :
           /\ groupRes' = [done |-> TRUE, text |-> r.text]
           /\ steps' = r.steps
    /\ UNCHANGED <<reply, debug, calls, box, boxToks, boxRes, settings, group>>

NextBeautify == CallBeautifyGroup

SpecBeautify == InitBeautify /\ [][NextBeautify]_vars

----------------------------------------------------------------------------
(* The filter under searches and responses *)

Searches == SeqsUpTo({"b"}, MaxSearchLen)

GoodBox == <<"B", "O", "X", "(", "7", ".", "5", " ", "2", "0", ",",
             "9", " ", "2", "1", ".", "2", "5", ")">>

GoodRect == QgsRectangle([num |-> 75, exp |-> 1], [num |-> 20, exp |-> 0],
                         [num |-> 9, exp |-> 0], [num |-> 2125, exp |-> 2])

ShortBox == <<"B", "O", "X", "(", "7", ".", "5", " ", "2", "0", ",", "9", ")">>

LongBox == <<"7", " ", "2", "0", " ", "9", " ", "2", "1", " ", "3">>

Entry(label, origin, rank, b, hasDetail) ==
    [label |-> label, origin |-> origin, rank |-> rank, geom_st_box2d |-> b,
     hasDetail |-> hasDetail]

KnownOrigins == {"zipcode", "gg25", "district", "kantone", "gazetteer", "address", "parcel"}

Origins == KnownOrigins \cup {"sn25", "ZIPCODE", ""}

\* the entries of the results array that responses are made of
ParseEntries ==
    {Entry("Bern", "zipcode", 1, GoodBox, TRUE),
     Entry("Biel", "gg25", 4, GoodBox, TRUE),
     Entry("Broye", "district", 7, GoodBox, TRUE),
     Entry("Jura", "kantone", 2, GoodBox, TRUE),
     Entry("Napf", "gazetteer", 3, GoodBox, TRUE),
     Entry("Dorf 1", "address", 5, GoodBox, TRUE),
     Entry("Nr 12", "parcel", 6, GoodBox, TRUE),
     Entry("Uri", "sn25", 1, GoodBox, TRUE),
     Entry("Chur", "zipcode", 4, ShortBox, TRUE),
     Entry("Thun", "parcel", 7, LongBox, TRUE),
     Entry("Visp", "address", 1, GoodBox, FALSE)}

ConcEntries ==
    {Entry("Bern", "zipcode", 1, GoodBox, TRUE),
     Entry("Uri", "sn25", 1, GoodBox, TRUE),
     Entry("Chur", "zipcode", 4, ShortBox, TRUE),
     Entry("Visp", "address", 1, GoodBox, FALSE)}

StatusCodes == {200, 204, 404}

\* the bodies with at most n entries of the set entries: no JSON, JSON
\* without a results array, JSON with one
Bodies(entries, n) ==
    {[kind |-> "notjson", hasResults |-> FALSE, results |-> <<>>],
     [kind |-> "json", hasResults |-> FALSE, results |-> <<>>]}
    \cup [kind : {"json"}, hasResults : {TRUE}, results : SeqsUpTo(entries, n)]

\* the responses: a status code and a body of at most n entries
Responses(entries, n) == [status_code : StatusCodes, content : Bodies(entries, n)]

InitCalls(n) ==
    /\ reply = "None"
    /\ debug \in BOOLEAN
    /\ calls = [c \in 1..n |-> IdleCall]
    /\ box = <<>>
    /\ boxToks = <<>>
    /\ boxRes = NoBoxRes
    /\ settings = NoToggles
    /\ group = <<>>
    /\ groupRes = NoGroupRes
    /\ steps = <<>>

\* several calls of one filter instance, each with a response of at most one entry
Init == InitCalls(MaxCalls)

Search == \E c \in DOMAIN calls, search \in Searches : FetchResults(c, search)

Canceled == \E c \in DOMAIN calls : Cancel(c)

Aborted == \E c \in DOMAIN calls : RequestAborted(c)

Failed == \E c \in DOMAIN calls : RequestFailed(c)

Responded ==
    \E c \in DOMAIN calls :
        /\ calls[c].pc = "request"
        /\ \E response \in Responses(ConcEntries, 1) : RequestReturns(c, response)

Next == Search \/ Canceled \/ Aborted \/ Failed \/ Responded

Spec == Init /\ [][Next]_vars

\* one call, with a response of up to MaxResults entries
InitParse == InitCalls(1)

RespondedParse ==
    \E c \in DOMAIN calls :
        /\ calls[c].pc = "request"
        /\ \E response \in Responses(ParseEntries, MaxResults) : RequestReturns(c, response)

NextParse == Search \/ Canceled \/ Aborted \/ Failed \/ RespondedParse

SpecParse == InitParse /\ [][NextParse]_vars

----------------------------------------------------------------------------
(* Claims about fetchResults and handle_response *)

Labels(rs) == [k \in 1..Len(rs) |-> rs[k].label]

DisplayStrings(rs) == [k \in 1..Len(rs) |-> rs[k].displayString]

\* the call c got a response with status 200 and a JSON body with a results array
GotResults(c) ==
    /\ calls[c].ended = "response"
    /\ calls[c].response.status_code = 200
    /\ calls[c].response.content.kind = "json"
    /\ calls[c].response.content.hasResults

ResultsOf(c) == calls[c].response.content.results

MalformedBoxes == {ShortBox, LongBox}

\* the places of the entries of rs that the loop cannot pass
MalformedAt(rs) == {k \in 1..Len(rs) : rs[k].geom_st_box2d \in MalformedBoxes}

UnknownAt(rs) == {k \in 1..Len(rs) : rs[k].origin \notin KnownOrigins}

NoDetailAt(rs) == {k \in 1..Len(rs) : ~rs[k].hasDetail}

\* C1: when a call with a search text of length >= 2 starts while the request
\* of an earlier call is in flight, the earlier request is aborted first, so
\* at most one request per filter instance is ever outstanding.
C1_SingleOutstanding == Cardinality(Outstanding) <= 1

\* C2: a fetchResults call whose search text has length 0 or 1 issues no
\* request, aborts no request in flight, emits no result and leaves the state
\* of the filter (self.reply, the other calls and their requests) unchanged.
C2_ShortSearchNoOp ==
    [][\A c \in DOMAIN calls :
          (calls[c].pc = "idle" /\ calls'[c].pc # "idle" /\ Len(calls'[c].search) < 2) =>
              /\ calls'[c].pc = "returned"
              /\ calls'[c].ended = "none"
              /\ calls'[c].emitted = <<>>
              /\ ~calls'[c].aborted
              /\ reply' = reply
              /\ \A d \in DOMAIN calls \ {c} : calls'[d] = calls[d]]_vars

\* C2 witness: a call with a search text of one character has returned while
\* the request of an earlier call is still in flight.
C2_Witness ==
    \E c, d \in DOMAIN calls :
        /\ calls[c].pc = "returned"
        /\ Len(calls[c].search) = 1
        /\ calls[c].ended = "none"
        /\ calls[d].pc = "request"
        /\ ~calls[d].aborted

\* C3: no exception propagates out of fetchResults, whatever the status code,
\* the body, the category keys or the bounding-box texts of the response.
C3_NoExceptionPropagates == \A c \in DOMAIN calls : calls[c].pc # "raised"

\* the one malformed entry of the response of c, 0 when there is not exactly
\* one or when another entry has an unknown category or lacks a key
OneMalformed(c) ==
    IF /\ GotResults(c)
       /\ Cardinality(MalformedAt(ResultsOf(c))) = 1
       /\ UnknownAt(ResultsOf(c)) = {}
       /\ NoDetailAt(ResultsOf(c)) = {}
    THEN SetMin(MalformedAt(ResultsOf(c)))
    ELSE 0

\* C4 as stated: when one entry of the results array has a malformed
\* bounding-box text, only that entry is skipped: every well-formed entry of
\* the response, before and after it, is emitted.
C4_Original ==
    \A c \in DOMAIN calls :
        OneMalformed(c) # 0 =>
            DisplayStrings(calls[c].emitted)
                = Labels(SubSeq(ResultsOf(c), 1, OneMalformed(c) - 1)
                         \o SubSeq(ResultsOf(c), OneMalformed(c) + 1, Len(ResultsOf(c))))

\* C4 as amended: when one entry of the results array has a malformed
\* bounding-box text, the loop ends at that entry with InvalidBox: every
\* well-formed entry before it has been emitted, the entry itself and every
\* entry after it are not.
C4_LoopEndsAtMalformed ==
    \A c \in DOMAIN calls :
        OneMalformed(c) # 0 =>
            /\ calls[c].exc = "InvalidBox"
            /\ DisplayStrings(calls[c].emitted)
                   = Labels(SubSeq(ResultsOf(c), 1, OneMalformed(c) - 1))

\* C4 witness: a response of three entries, the second malformed, has been
\* handled and the first entry emitted.
C4_Witness ==
    \E c \in DOMAIN calls :
        /\ OneMalformed(c) = 2
        /\ Len(ResultsOf(c)) = 3
        /\ Len(calls[c].emitted) = 1
        /\ calls[c].pc = "raised"

ErrorMessages == {"request_error", "status_error"}

Logged(c) == {calls[c].log[k] : k \in 1..Len(calls[c].log)}

\* C5: when the request in flight is aborted by the cancellation signal,
\* fetchResults emits no result, reports no error message and raises no
\* exception; when the request fails with any other transport error, the
\* error is logged, no result is emitted and no exception is raised.
C5_AbortSilentErrorLogged ==
    \A c \in DOMAIN calls :
        /\ (calls[c].canceled /\ calls[c].pc # "request") =>
               calls[c].ended = "RequestsExceptionUserAbort"
        /\ calls[c].ended = "RequestsExceptionUserAbort" =>
               /\ calls[c].pc = "returned"
               /\ calls[c].emitted = <<>>
               /\ Logged(c) \cap ErrorMessages = {}
        /\ calls[c].ended = "RequestsException" =>
               /\ calls[c].pc = "returned"
               /\ calls[c].emitted = <<>>
               /\ "request_error" \in Logged(c)

\* C5 witness: one call has ended on the cancellation signal and another on a
\* transport error.
C5_Witness ==
    \E c, d \in DOMAIN calls :
        /\ calls[c].canceled
        /\ calls[c].ended = "RequestsExceptionUserAbort"
        /\ calls[c].pc = "returned"
        /\ calls[d].ended = "RequestsException"
        /\ calls[d].pc = "returned"

\* C6: when the status code of the response is not 200, handle_response logs
\* the status, emits no result, does not parse the body and raises no
\* exception, whatever the body is, a body that is not JSON included.
C6_Non200LoggedNotParsed ==
    \A c \in DOMAIN calls :
        (calls[c].ended = "response" /\ calls[c].response.status_code # 200) =>
            /\ calls[c].pc = "returned"
            /\ calls[c].exc = "none"
            /\ calls[c].emitted = <<>>
            /\ ~calls[c].parsed
            /\ "status_error" \in Logged(c)

\* C6 witness: a response with status 204 and a body that is not JSON has
\* been handled.
C6_Witness ==
    \E c \in DOMAIN calls :
        /\ calls[c].ended = "response"
        /\ calls[c].response.status_code = 204
        /\ calls[c].response.content.kind = "notjson"
        /\ calls[c].pc = "returned"

\* the category the claims give for each origin key
ClaimedCategory ==
    [g \in KnownOrigins |->
        CASE g = "zipcode" -> "ZIP code"
          [] g = "gg25" -> "Municipal boundaries"
          [] g = "district" -> "District"
          [] g = "kantone" -> "Cantons"
          [] g = "gazetteer" -> "Index"
          [] g = "address" -> "Address"
          [] g = "parcel" -> "Parcel"]

\* C7: every result emitted for an entry of the results array carries the
\* label of the entry as display string, the category mapped from its origin
\* key, the relevance score 1 - rank/7 of its rank, and the rectangle parsed
\* from its bounding-box text.
C7_ResultCarriesScore ==
    \A c \in DOMAIN calls : \A k \in 1..Len(calls[c].emitted) :
        /\ calls[c].emitted[k].displayString = ResultsOf(c)[k].label
        /\ calls[c].emitted[k].group = ClaimedCategory[ResultsOf(c)[k].origin]
        /\ calls[c].emitted[k].userData = GoodRect
        /\ calls[c].emitted[k].score.num * 7
               = (7 - ResultsOf(c)[k].rank) * calls[c].emitted[k].score.den

\* the first entry of the response of c with a key outside the table, 0 when
\* there is none or when an entry before it ends the loop
FirstUnknown(c) ==
    IF GotResults(c) /\ UnknownAt(ResultsOf(c)) # {}
    THEN LET k == SetMin(UnknownAt(ResultsOf(c)))
         IN IF /\ \A j \in 1..(k - 1) : j \notin MalformedAt(ResultsOf(c))
               /\ \A j \in 1..k : j \notin NoDetailAt(ResultsOf(c))
            THEN k ELSE 0
    ELSE 0

\* C8: translate_group maps each of the seven origin keys to its own category
\* (ZIP code, Municipal boundaries, District, Cantons, Index, Address, Parcel);
\* for any other key it fails, the error leaves fetchResults as a hard error,
\* and no result is emitted for that entry.
C8_CategoryMapping ==
    /\ \A g \in KnownOrigins : TranslateGroup(g) = [exc |-> "none", text |-> ClaimedCategory[g]]
    /\ \A g, h \in KnownOrigins : g # h => TranslateGroup(g).text # TranslateGroup(h).text
    /\ \A g \in Origins \ KnownOrigins : TranslateGroup(g).exc = "NameError"
    /\ \A c \in DOMAIN calls :
           /\ \A k \in 1..Len(calls[c].emitted) :
                  /\ ResultsOf(c)[k].origin \in KnownOrigins
                  /\ calls[c].emitted[k].group = ClaimedCategory[ResultsOf(c)[k].origin]
           /\ FirstUnknown(c) # 0 =>
                  /\ calls[c].pc = "raised"
                  /\ calls[c].exc = "NameError"
                  /\ Len(calls[c].emitted) = FirstUnknown(c) - 1

\* C8 witness: a response whose third entry has an unknown origin key has
\* been handled: two results emitted, of different categories, then the error.
C8_Witness ==
    \E c \in DOMAIN calls :
        /\ FirstUnknown(c) = 3
        /\ calls[c].pc = "raised"
        /\ Len(calls[c].emitted) = 2
        /\ calls[c].emitted[1].group = "Cantons"
        /\ calls[c].emitted[2].group = "Parcel"

----------------------------------------------------------------------------
(* Claims about the pure functions *)

\* C9: box2geometry returns a rectangle if and only if the box text holds
\* exactly four unsigned decimal-number tokens, and the rectangle is then
\* (xmin, ymin, xmax, ymax) = the values of the four tokens from left to right;
\* with fewer or more tokens it fails with InvalidBox and returns no rectangle.
C9_FourTokensIffRectangle ==
    boxRes.done =>
        /\ (boxRes.exc = "none") <=> (Len(boxToks) = 4)
        /\ (boxRes.exc # "none") => (boxRes.exc = "InvalidBox" /\ boxRes.rect = NoRect)
        /\ (boxRes.exc = "none") =>
               boxRes.rect = [xMinimum |-> boxToks[1].value, yMinimum |-> boxToks[2].value,
                              xMaximum |-> boxToks[3].value, yMaximum |-> boxToks[4].value]

\* C9 witness: a text of four tokens, two of them different, one with a
\* fraction, has been parsed into its rectangle.
C9_Witness ==
    /\ boxRes.done
    /\ boxRes.exc = "none"
    /\ Len(boxToks) = 4
    /\ boxToks[1].value # boxToks[3].value
    /\ boxToks[4].value.exp = 1
    /\ boxRes.rect.yMaximum = boxToks[4].value

ExampleSteps == <<"remove_leading_digits", "replace_underscore", "break_camelcase">>

\* the steps of ss whose toggle is on in st, in the order of ss
RECURSIVE EnabledSteps(_, _)
EnabledSteps(ss, st) ==
    IF ss = <<>> THEN <<>>
    ELSE (IF st[Head(ss)] THEN <<Head(ss)>> ELSE <<>>) \o EnabledSteps(Tail(ss), st)

\* what the claim says of every call: the enabled steps are applied in the
\* fixed order, a step whose toggle is off is skipped (with every toggle off
\* the text is returned as it is, no digit leads the result when the first
\* step is on and nothing follows it, no underscore is left when the second
\* step is on)
BeautifySteps ==
    groupRes.done =>
        /\ steps = EnabledSteps(ExampleSteps, settings)
        /\ settings = NoToggles => groupRes.text = group
        /\ settings.replace_underscore =>
               \A k \in 1..Len(groupRes.text) : groupRes.text[k] # "_"
        /\ ~settings.replace_underscore =>
               Cardinality({k \in 1..Len(groupRes.text) : groupRes.text[k] = "_"})
                   = Cardinality({k \in 1..Len(group) : group[k] = "_"})
        /\ settings.remove_leading_digits =>
               (groupRes.text = <<>> \/ groupRes.text[1] \notin Digits)
        /\ ~settings.break_camelcase => Len(groupRes.text) <= Len(group)

AllToggles == [remove_leading_digits |-> TRUE, replace_underscore |-> TRUE,
               break_camelcase |-> TRUE]

\* C10 as stated: the steps are applied in the fixed order, each skipped when
\* its toggle is off, and "12_CamelCaseWord" with all three toggles on yields
\* exactly "Camel Case Word".
C10_Original ==
    /\ BeautifySteps
    /\ (groupRes.done /\ group = ExampleGroup /\ settings = AllToggles) =>
           groupRes.text = <<"C", "a", "m", "e", "l", " ", "C", "a", "s", "e", " ",
                             "W", "o", "r", "d">>

\* C10 as amended: the steps are applied in the fixed order, each skipped when
\* its toggle is off, and "12_CamelCaseWord" with all three toggles on yields
\* " Camel Case Word": the underscore that followed the digits is left as a
\* leading space.
C10_BeautifyLeadingSpace ==
    /\ BeautifySteps
    /\ (groupRes.done /\ group = ExampleGroup /\ settings = AllToggles) =>
           groupRes.text = <<" ", "C", "a", "m", "e", "l", " ", "C", "a", "s", "e", " ",
                             "W", "o", "r", "d">>

\* C10 witness: the example has been beautified with all three toggles on.
C10_Witness ==
    /\ groupRes.done
    /\ group = ExampleGroup
    /\ settings = AllToggles
    /\ steps = ExampleSteps
    /\ Len(groupRes.text) = 16

====
